---- MODULE Spec2Model ----
(***************************************************************************)
(* Model of the schema-aware decode pipeline of the MSK-to-AppSync lambda  *)
(* (cloudformation/lambda/index.py): the process-wide schema cache, the    *)
(* two schema resolvers, deserialize_message and lambda_handler.           *)
(*                                                                         *)
(*   Spec         the functions of the module called one after the other   *)
(*   HandlerSpec  one invocation of lambda_handler on an event             *)
(*   RaceSpec     the resolvers run by several workers at once             *)
(*                                                                         *)
(* Bytes are sequences of 0..255.  Python strings are sequences of         *)
(* one-character strings, so that formatting (uuid, base64, the "name:"    *)
(* cache-key prefix) is computed and not assumed.                          *)
(***************************************************************************)
EXTENDS Integers, Sequences, FiniteSets, TLC

VARIABLES
    FASTAVRO_AVAILABLE,   \* import fastavro succeeded
    glue_client,          \* TRUE: a boto3 glue client exists; FALSE: None
    GLUE_REGISTRY_NAME,   \* TRUE: the environment variable is set
    schema_cache,         \* _schema_cache: cache key -> parsed schema
    cache_origin,         \* history: the resolver that inserted each cache entry
    last,                 \* the call that has just returned and its result ("idle": none)
    prev,                 \* history: the call before it, when that was get_avro_schema
    APPSYNC_HTTP_ENDPOINT, \* TRUE: the environment variable is set
    events_table,         \* TRUE: a DynamoDB table object exists; FALSE: None
    handler,              \* the invocation of lambda_handler in progress
    race,                 \* workers that resolve schemas at the same time
    latest                \* the registry: definition of the latest version of each name

handler_vars == <<APPSYNC_HTTP_ENDPOINT, events_table, handler>>
race_vars == <<race, latest>>

vars == <<FASTAVRO_AVAILABLE, glue_client, GLUE_REGISTRY_NAME, schema_cache, cache_origin, last, prev,
          APPSYNC_HTTP_ENDPOINT, events_table, handler, race, latest>>

(***************************************************************************)
(* Python values.                                                          *)
(***************************************************************************)
NoneVal == [type |-> "NoneType", d |-> <<>>, l |-> <<>>, n |-> 0]
IntVal(n) == [type |-> "int", d |-> <<>>, l |-> <<>>, n |-> n]
FloatNaN == [type |-> "float", d |-> <<>>, l |-> <<>>, n |-> 0]     \* float('nan')
BytesVal(b) == [type |-> "bytes", d |-> <<>>, l |-> b, n |-> 0]
ListVal(l) == [type |-> "list", d |-> <<>>, l |-> l, n |-> 0]
DictVal(d) == [type |-> "dict", d |-> d, l |-> <<>>, n |-> 0]
\* dictionary leaves: a string, or an integer
StrLeaf(s) == [t |-> "str", s |-> s, n |-> 0]
IntLeaf(n) == [t |-> "int", s |-> <<>>, n |-> n]

IsDict(v) == v.type = "dict"
Keys(v) == DOMAIN v.d

(***************************************************************************)
(* str(uuid.UUID(bytes=b)): 32 lower-case hex digits grouped 8-4-4-4-12.   *)
(***************************************************************************)
HexDigits == <<"0", "1", "2", "3", "4", "5", "6", "7", "8", "9", "a", "b", "c", "d", "e", "f">>
HexByte(b) == <<HexDigits[(b \div 16) + 1], HexDigits[(b % 16) + 1]>>

RECURSIVE HexBytes(_)
HexBytes(bs) ==
    IF bs = <<>> THEN <<>> ELSE HexByte(Head(bs)) \o HexBytes(Tail(bs))

UuidStr(b16) ==
    HexBytes(SubSeq(b16, 1, 4)) \o <<"-">> \o HexBytes(SubSeq(b16, 5, 6)) \o <<"-">>
        \o HexBytes(SubSeq(b16, 7, 8)) \o <<"-">> \o HexBytes(SubSeq(b16, 9, 10))
        \o <<"-">> \o HexBytes(SubSeq(b16, 11, 16))

(***************************************************************************)
(* base64.b64encode(bs).decode('utf-8')                                    *)
(***************************************************************************)
B64Alphabet ==
    <<"A", "B", "C", "D", "E", "F", "G", "H", "I", "J", "K", "L", "M", "N", "O", "P",
      "Q", "R", "S", "T", "U", "V", "W", "X", "Y", "Z", "a", "b", "c", "d", "e", "f",
      "g", "h", "i", "j", "k", "l", "m", "n", "o", "p", "q", "r", "s", "t", "u", "v",
      "w", "x", "y", "z", "0", "1", "2", "3", "4", "5", "6", "7", "8", "9", "+", "/">>

B64Group(g) ==
    LET k == Len(g)
        b1 == g[1]
        b2 == IF k >= 2 THEN g[2] ELSE 0
        b3 == IF k >= 3 THEN g[3] ELSE 0
    IN  << B64Alphabet[(b1 \div 4) + 1],
           B64Alphabet[((b1 % 4) * 16 + (b2 \div 16)) + 1],
           IF k >= 2 THEN B64Alphabet[((b2 % 16) * 4 + (b3 \div 64)) + 1] ELSE "=",
           IF k >= 3 THEN B64Alphabet[(b3 % 64) + 1] ELSE "=" >>

RECURSIVE b64encode(_)
b64encode(bs) ==
    IF Len(bs) = 0 THEN <<>>
    ELSE IF Len(bs) <= 3 THEN B64Group(bs)
    ELSE B64Group(SubSeq(bs, 1, 3)) \o b64encode(SubSeq(bs, 4, Len(bs)))

(***************************************************************************)
(* raw_bytes.decode('utf-8'): whether the strict decoder accepts the bytes *)
(* (well-formed UTF-8: no stray continuation byte, no overlong form, no    *)
(* surrogate, nothing above U+10FFFF).                                     *)
(***************************************************************************)
RECURSIVE Utf8Valid(_)
Utf8Valid(bs) ==
    IF bs = <<>> THEN TRUE
    ELSE
        LET k == Len(bs)
            b == bs[1]
            Cont(i) == i <= k /\ bs[i] >= 128 /\ bs[i] <= 191
            In(i, lo, hi) == i <= k /\ bs[i] >= lo /\ bs[i] <= hi
            Rest(j) == SubSeq(bs, j + 1, k)
        IN  IF b < 128 THEN Utf8Valid(Rest(1))
            ELSE IF b >= 194 /\ b <= 223 THEN Cont(2) /\ Utf8Valid(Rest(2))
            ELSE IF b = 224 THEN In(2, 160, 191) /\ Cont(3) /\ Utf8Valid(Rest(3))
            ELSE IF b = 237 THEN In(2, 128, 159) /\ Cont(3) /\ Utf8Valid(Rest(3))
            ELSE IF b >= 225 /\ b <= 239 THEN Cont(2) /\ Cont(3) /\ Utf8Valid(Rest(3))
            ELSE IF b = 240 THEN In(2, 144, 191) /\ Cont(3) /\ Cont(4) /\ Utf8Valid(Rest(4))
            ELSE IF b >= 241 /\ b <= 243 THEN Cont(2) /\ Cont(3) /\ Cont(4) /\ Utf8Valid(Rest(4))
            ELSE IF b = 244 THEN In(2, 128, 143) /\ Cont(3) /\ Cont(4) /\ Utf8Valid(Rest(4))
            ELSE FALSE

(***************************************************************************)
(* json.loads on the texts the model feeds it.  JsonTexts lists every      *)
(* payload of RawBytesSet that is a JSON document, with the value Python   *)
(* builds for it; every other payload of RawBytesSet is not JSON           *)
(* (JSONDecodeError).                                                      *)
(***************************************************************************)
TextEmptyObject == <<123, 125>>                        \* {}
TextEmptyArray == <<91, 93>>                           \* []
TextNull == <<110, 117, 108, 108>>                     \* null
TextOne == <<49>>                                      \* 1
TextTrip ==                                            \* {"PULocationID":12}
    <<123, 34, 80, 85, 76, 111, 99, 97, 116, 105, 111, 110, 73, 68, 34, 58, 49, 50, 125>>

\* 1000 times '[' then 1000 times ']': a JSON text nested deeper than the
\* interpreter's recursion limit lets the JSON scanner descend
TextDeep == [i \in 1..2000 |-> IF i <= 1000 THEN 91 ELSE 93]
\* 1000 times '[': the scanner exceeds the recursion limit before it can see
\* that the text is no JSON
TextDeepOpen == [i \in 1..1000 |-> 91]
\* NaN: no JSON text, and a constant json.loads accepts
TextNaN == <<78, 97, 78>>

JsonTexts ==
    (TextEmptyObject :> DictVal(<<>>))
        @@ (TextEmptyArray :> ListVal(<<>>))
        @@ (TextNull :> NoneVal)
        @@ (TextOne :> IntVal(1))
        @@ (TextTrip :> DictVal([PULocationID |-> IntLeaf(12)]))
        @@ (TextNaN :> FloatNaN)

\* json.loads(raw_bytes.decode('utf-8')) of lines 181-184
json_loads(bs) ==
    IF bs \in {TextDeep, TextDeepOpen} THEN [ok |-> FALSE, ex |-> "RecursionError", value |-> NoneVal]
    ELSE IF ~Utf8Valid(bs) THEN [ok |-> FALSE, ex |-> "UnicodeDecodeError", value |-> NoneVal]
    ELSE IF bs \in DOMAIN JsonTexts THEN [ok |-> TRUE, ex |-> "", value |-> JsonTexts[bs]]
    ELSE [ok |-> FALSE, ex |-> "JSONDecodeError", value |-> NoneVal]

(***************************************************************************)
(* zlib.decompress on the payloads the model feeds it: ZlibStreams lists   *)
(* the payloads that are zlib streams, with their content; every other     *)
(* payload of the model raises zlib.error.                                 *)
(***************************************************************************)
ZlibOfTwo == <<120, 156, 99, 2, 0, 0, 3, 0, 3>>        \* zlib.compress(b'\x02')

ZlibStreams == (ZlibOfTwo :> <<2>>)

zlib_decompress(bs) ==
    IF bs \in DOMAIN ZlibStreams THEN [raised |-> FALSE, out |-> ZlibStreams[bs]]
    ELSE [raised |-> TRUE, out |-> <<>>]

(***************************************************************************)
(* fastavro.schemaless_reader.  Avro longs are zig-zag base-128 varints;   *)
(* reading past the end of the input raises.                               *)
(***************************************************************************)
ReadFailed == [ok |-> FALSE, n |-> 0, items |-> <<>>, rest |-> <<>>]

VarintMore(b, r) ==
    IF r.ok THEN [ok |-> TRUE, n |-> (b - 128) + 128 * r.n, items |-> <<>>, rest |-> r.rest]
    ELSE ReadFailed

RECURSIVE read_varint(_)
read_varint(bs) ==
    IF bs = <<>> THEN ReadFailed
    ELSE IF bs[1] < 128 THEN [ok |-> TRUE, n |-> bs[1], items |-> <<>>, rest |-> Tail(bs)]
    ELSE VarintMore(bs[1], read_varint(Tail(bs)))

ZigZag(r) ==
    [ok |-> r.ok, n |-> IF r.n % 2 = 0 THEN r.n \div 2 ELSE -((r.n + 1) \div 2),
     items |-> <<>>, rest |-> r.rest]

read_long(bs) == ZigZag(read_varint(bs))

Prepend(x, more) ==
    IF more.ok THEN [ok |-> TRUE, n |-> 0, items |-> <<x>> \o more.items, rest |-> more.rest]
    ELSE ReadFailed

RECURSIVE read_items(_, _)
ItemsFrom(x, count) ==
    IF x.ok THEN Prepend(x.n, read_items(x.rest, count - 1)) ELSE ReadFailed

read_items(bs, count) ==
    IF count = 0 THEN [ok |-> TRUE, n |-> 0, items |-> <<>>, rest |-> bs]
    ELSE ItemsFrom(read_long(bs), count)

\* an array of longs: blocks of (count, items...), ended by a count of 0; a
\* negative count is followed by the block's size in bytes
RECURSIVE read_array(_)
Append2(block, more) ==
    IF more.ok THEN [ok |-> TRUE, n |-> 0, items |-> block.items \o more.items, rest |-> more.rest]
    ELSE ReadFailed

BlockThenRest(block) ==
    IF block.ok THEN Append2(block, read_array(block.rest)) ELSE ReadFailed

SizedBlock(size, count) ==
    IF size.ok THEN BlockThenRest(read_items(size.rest, count)) ELSE ReadFailed

ArrayFrom(c) ==
    IF ~c.ok THEN ReadFailed
    ELSE IF c.n = 0 THEN [ok |-> TRUE, n |-> 0, items |-> <<>>, rest |-> c.rest]
    ELSE IF c.n < 0 THEN SizedBlock(read_long(c.rest), -c.n)
    ELSE BlockThenRest(read_items(c.rest, c.n))

read_array(bs) == ArrayFrom(read_long(bs))

(***************************************************************************)
(* Parsed schemas.  "record": record TaxiTrip {PULocationID: long};        *)
(* "array": array of long.  Without fastavro a schema is the definition's  *)
(* JSON value: "raw_record", "raw_array", "raw_object" (a JSON object that *)
(* is no Avro schema).  "record_v2": the record with the added field       *)
(* DOLocationID: long ("raw_record_v2").  "bytes": the primitive schema "bytes", whose JSON   *)
(* value is the string "raw_bytes".  Every such value is a non-empty dict  *)
(* or a non-empty string.                                                  *)
(***************************************************************************)
NoSchema == "None"

RecordRead(x) == [raised |-> ~x.ok, value |-> DictVal([PULocationID |-> IntLeaf(x.n)])]
ArrayRead(a) == [raised |-> ~a.ok, value |-> ListVal(a.items)]

\* record TaxiTrip {PULocationID: long, DOLocationID: long}
SecondLong(first, x) ==
    [raised |-> ~x.ok,
     value |-> DictVal([PULocationID |-> IntLeaf(first), DOLocationID |-> IntLeaf(x.n)])]

RecordV2Read(x) ==
    IF ~x.ok THEN [raised |-> TRUE, value |-> NoneVal] ELSE SecondLong(x.n, read_long(x.rest))

\* a length, then that many bytes; fewer bytes than the length raise EOFError
BytesRead(x) ==
    IF ~x.ok \/ x.n < 0 \/ Len(x.rest) < x.n THEN [raised |-> TRUE, value |-> NoneVal]
    ELSE [raised |-> FALSE, value |-> BytesVal(SubSeq(x.rest, 1, x.n))]

schemaless_reader(bs, schema) ==
    IF schema = "record" THEN RecordRead(read_long(bs))
    ELSE IF schema = "bytes" THEN BytesRead(read_long(bs))
    ELSE IF schema = "record_v2" THEN RecordV2Read(read_long(bs))
    ELSE IF schema = "array" THEN ArrayRead(read_array(bs))
    ELSE [raised |-> TRUE, value |-> NoneVal]

\* `if schema:` (lines 170, 190)
Truthy(schema) == schema # NoSchema

(***************************************************************************)
(* The Glue schema registry, as the process sees it through boto3.         *)
(* Schema version ids are the uuids of 16 bytes; Uuid16(n) is 15 zero      *)
(* bytes followed by the byte n.                                           *)
(***************************************************************************)
Uuid16(n) == [i \in 1..16 |-> IF i = 16 THEN n ELSE 0]

UuidRecord == Uuid16(1)
UuidArray == Uuid16(2)
UuidBytes == Uuid16(3)
UuidJsonObject == Uuid16(4)
UuidUnregistered == Uuid16(171)

UuidBytesSet == {UuidRecord, UuidArray, UuidJsonObject, UuidUnregistered}
SchemaVersionIds == {UuidStr(u) : u \in UuidBytesSet}

SchemaTaxiTrip == <<"t", "a", "x", "i", "-", "t", "r", "i", "p", "-", "s", "c", "h", "e", "m", "a">>
SchemaTaxiLocations == <<"t", "a", "x", "i", "-", "l", "o", "c", "a", "t", "i", "o", "n", "s">>
\* a schema whose name has the form of a version id; its definition is not JSON
SchemaUuidNamed == UuidStr(UuidRecord)
SchemaNames == {SchemaTaxiTrip, SchemaTaxiLocations, SchemaUuidNamed}

\* SchemaDefinition of each registered schema version
GlueVersions ==
    (UuidStr(UuidRecord) :> "RecordDef")
        @@ (UuidStr(UuidArray) :> "ArrayDef")
        @@ (UuidStr(UuidJsonObject) :> "JsonObjectDef")
        @@ (UuidStr(UuidBytes) :> "BytesDef")

\* SchemaDefinition of the latest version of each registered schema name
GlueLatest ==
    (SchemaTaxiTrip :> [id |-> UuidStr(UuidRecord), def |-> "RecordDef"])
        @@ (SchemaTaxiLocations :> [id |-> UuidStr(UuidArray), def |-> "ArrayDef"])
        @@ (SchemaUuidNamed :> [id |-> UuidStr(Uuid16(9)), def |-> "NotJsonDef"])

\* what one remote call does: the service answers, or the call fails
\* (timeout, throttling, access denied)
RemoteOutcomes == {"respond", "fail"}

\* glue_client.get_schema_version(SchemaVersionId=...) of lines 70-72
get_schema_version_by_id(schema_version_id, remote) ==
    IF remote = "fail" \/ schema_version_id \notin DOMAIN GlueVersions
    THEN [raised |-> TRUE, def |-> ""]
    ELSE [raised |-> FALSE, def |-> GlueVersions[schema_version_id]]

\* glue_client.get_schema_version(SchemaId=..., LatestVersion) of lines 96-102
get_schema_version_by_name(schema_name, remote) ==
    IF remote = "fail" \/ schema_name \notin DOMAIN GlueLatest
    THEN [raised |-> TRUE, def |-> ""]
    ELSE [raised |-> FALSE, def |-> GlueLatest[schema_name].def]

\* json.loads(response['SchemaDefinition']) then fastavro.parse_schema, or the
\* JSON value as it is without fastavro (lines 73-74, 103-104)
parse_definition(def) ==
    LET raw == CASE def = "RecordDef" -> "raw_record"
                 [] def = "ArrayDef" -> "raw_array"
                 [] def = "JsonObjectDef" -> "raw_object"
                 [] def = "BytesDef" -> "raw_bytes"
                 [] def = "RecordV2Def" -> "raw_record_v2"
                 [] OTHER -> NoSchema          \* json.loads raises
    IN  IF raw = NoSchema THEN [raised |-> TRUE, schema |-> NoSchema]
        ELSE IF ~FASTAVRO_AVAILABLE THEN [raised |-> FALSE, schema |-> raw]
        ELSE IF raw = "raw_record" THEN [raised |-> FALSE, schema |-> "record"]
        ELSE IF raw = "raw_array" THEN [raised |-> FALSE, schema |-> "array"]
        ELSE IF raw = "raw_bytes" THEN [raised |-> FALSE, schema |-> "bytes"]
        ELSE IF raw = "raw_record_v2" THEN [raised |-> FALSE, schema |-> "record_v2"]
        ELSE [raised |-> TRUE, schema |-> NoSchema]     \* parse_schema raises

(***************************************************************************)
(* The schema cache and the two resolvers.  A resolver call yields the     *)
(* schema it returns, the cache after it, whether the key was cached on    *)
(* entry, and the number of registry calls it made.                        *)
(***************************************************************************)
CacheHitNever(cache, key) == FALSE

\* `schema_version_id in _schema_cache`, `cache_key in _schema_cache`
CacheHit(cache, key) == key \in DOMAIN cache

CacheStoreDropped(cache, key, schema) == cache
CacheStoreOnly(cache, key, schema) == (key :> schema)
CacheStoreShared(cache, key, schema) == [k \in DOMAIN cache \cup {key} |-> schema]

\* `_schema_cache[key] = parsed_schema`
CacheStore(cache, key, schema) == [k \in DOMAIN cache \cup {key} |-> IF k = key THEN schema ELSE cache[k]]

CacheAfterFailureNegative(cache, key) ==
    [k \in DOMAIN cache \cup {key} |-> IF k = key THEN NoSchema ELSE cache[k]]

\* the except blocks of the resolvers: print, return None
CacheAfterFailure(cache, key) == cache

NameCacheKeyBare(schema_name) == schema_name

\* cache_key = f"name:{schema_name}"
NameCacheKey(schema_name) == <<"n", "a", "m", "e", ":">> \o schema_name

\* the definition parsed, or nothing when the call or the parse raised
ParsedResponse(response) ==
    IF response.raised THEN [raised |-> TRUE, schema |-> NoSchema]
    ELSE parse_definition(response.def)

\* lines 73-80, 103-110: store and return the schema, or return None
Resolved(parsed, cache, key) ==
    IF parsed.raised
    THEN [ret |-> NoSchema, cache |-> CacheAfterFailure(cache, key), hit |-> FALSE,
          calls |-> 1, key |-> key, stored |-> FALSE]
    ELSE [ret |-> parsed.schema, cache |-> CacheStore(cache, key, parsed.schema),
          hit |-> FALSE, calls |-> 1, key |-> key, stored |-> TRUE]

get_avro_schema(cache, schema_version_id, remote) ==
    IF CacheHit(cache, schema_version_id)
    THEN [ret |-> cache[schema_version_id], cache |-> cache, hit |-> TRUE, calls |-> 0,
          key |-> schema_version_id, stored |-> FALSE]
    ELSE IF ~glue_client
    THEN [ret |-> NoSchema, cache |-> cache, hit |-> FALSE, calls |-> 0,
          key |-> schema_version_id, stored |-> FALSE]
    ELSE Resolved(ParsedResponse(get_schema_version_by_id(schema_version_id, remote)),
                  cache, schema_version_id)

ByNameKeyed(cache, cache_key, schema_name, remote) ==
    IF CacheHit(cache, cache_key)
    THEN [ret |-> cache[cache_key], cache |-> cache, hit |-> TRUE, calls |-> 0,
          key |-> cache_key, stored |-> FALSE]
    ELSE IF ~glue_client \/ ~GLUE_REGISTRY_NAME
    THEN [ret |-> NoSchema, cache |-> cache, hit |-> FALSE, calls |-> 0,
          key |-> cache_key, stored |-> FALSE]
    ELSE Resolved(ParsedResponse(get_schema_version_by_name(schema_name, remote)),
                  cache, cache_key)

get_schema_by_name(cache, schema_name, remote) ==
    ByNameKeyed(cache, NameCacheKey(schema_name), schema_name, remote)

(***************************************************************************)
(* decode_avro_payload (lines 113-126): never raises; a failed decode is a *)
(* mapping with raw_bytes and decode_error.  Messages are opaque tokens.   *)
(***************************************************************************)
DecodeError(avro_bytes, message) ==
    DictVal([raw_bytes |-> StrLeaf(b64encode(avro_bytes)), decode_error |-> StrLeaf(message)])

\* lines 120-126: the record read, or the except block's mapping
ReaderResult(r, avro_bytes) ==
    IF r.raised THEN DecodeError(avro_bytes, <<"str(e)">>) ELSE r.value

decode_avro_payload(avro_bytes, schema) ==
    IF ~FASTAVRO_AVAILABLE THEN DecodeError(avro_bytes, <<"fastavro not available">>)
    ELSE ReaderResult(schemaless_reader(avro_bytes, schema), avro_bytes)

(***************************************************************************)
(* deserialize_message (lines 129-200).                                    *)
(***************************************************************************)
HEADER_LENGTH == 18
HEADER_VERSION == 3
COMPRESSION_ZLIB == 5

TOPIC_SCHEMA_MAP ==
    ("taxi-trips" :> SchemaTaxiTrip)
        @@ ("taxi-rides" :> SchemaTaxiTrip)
        @@ ("taxi-trip-schema" :> SchemaTaxiTrip)
        @@ ("taxi-locations" :> SchemaTaxiLocations)

HasEnvelopeFrom18(raw_bytes) == Len(raw_bytes) >= HEADER_LENGTH /\ raw_bytes[1] = HEADER_VERSION

\* `len(raw_bytes) > 18 and raw_bytes[0] == 0x03`
HasEnvelope(raw_bytes) == Len(raw_bytes) > HEADER_LENGTH /\ raw_bytes[1] = HEADER_VERSION

SchemaUuidBytesShifted(raw_bytes) == SubSeq(raw_bytes, 2, 17)
SchemaUuidBytesLong(raw_bytes) == SubSeq(raw_bytes, 3, 19)

\* raw_bytes[2:18]
SchemaUuidBytes(raw_bytes) == SubSeq(raw_bytes, 3, 18)

\* raw_bytes[18:]
AvroPayload(raw_bytes) == SubSeq(raw_bytes, HEADER_LENGTH + 1, Len(raw_bytes))

IsZlibWrongCode(compression) == compression = 80
IsZlibAnyNonZero(compression) == compression # 0

\* `if compression == 0x05`
IsZlib(compression) == compression = COMPRESSION_ZLIB

SchemaUnresolvedFallbackBare(avro_payload, schema_version_id) ==
    DictVal([raw_bytes |-> StrLeaf(b64encode(avro_payload))])

\* line 175
SchemaUnresolvedFallback(avro_payload, schema_version_id) ==
    DictVal([raw_bytes |-> StrLeaf(b64encode(avro_payload)),
             schema_version_id |-> StrLeaf(schema_version_id)])

EnvelopeErrorFallbackPayload(raw_bytes) ==
    DictVal([raw_bytes |-> StrLeaf(b64encode(AvroPayload(raw_bytes))),
             error |-> StrLeaf(<<"str(e)">>)])

\* line 178
EnvelopeErrorFallback(raw_bytes) ==
    DictVal([raw_bytes |-> StrLeaf(b64encode(raw_bytes)), error |-> StrLeaf(<<"str(e)">>)])

\* line 200
TerminalFallback(raw_bytes) == DictVal([raw_bytes |-> StrLeaf(b64encode(raw_bytes))])

\* a call that used no resolver
NoResolve(cache) ==
    [ret |-> NoSchema, cache |-> cache, hit |-> FALSE, calls |-> 0, key |-> <<>>, stored |-> FALSE]

Outcome(raised, ret, steps, resolver, kind) ==
    [raised |-> raised, ret |-> ret, steps |-> steps, cache |-> resolver.cache,
     resolver |-> kind, schema |-> resolver.ret, hit |-> resolver.hit,
     calls |-> resolver.calls, key |-> resolver.key, stored |-> resolver.stored]

\* lines 170-175, given the schema the resolver returned
AfterById(r, avro_payload, schema_version_id, steps) ==
    IF Truthy(r.ret)
    THEN Outcome(FALSE, decode_avro_payload(avro_payload, r.ret),
                 steps \o <<"by_id", "decode", "return_decoded">>, r, "by_id")
    ELSE Outcome(FALSE, SchemaUnresolvedFallback(avro_payload, schema_version_id),
                 steps \o <<"by_id", "return_unresolved">>, r, "by_id")

\* lines 163-178, given the payload after decompression
AfterDecompress(z, raw_bytes, schema_version_id, cache, remote, steps) ==
    IF z.raised
    THEN Outcome(FALSE, EnvelopeErrorFallback(raw_bytes), steps \o <<"return_error">>,
                 NoResolve(cache), "none")
    ELSE AfterById(get_avro_schema(cache, schema_version_id, remote), z.out,
                   schema_version_id, steps)

\* str(uuid.UUID(bytes=b)) of line 157: ValueError unless b has 16 bytes
uuid_UUID(b) ==
    IF Len(b) # 16 THEN [raised |-> TRUE, s |-> <<>>]
    ELSE [raised |-> FALSE, s |-> UuidStr(b)]

\* lines 160-178, given the schema version id
AfterUuid(u, raw_bytes, cache, remote) ==
    IF u.raised
    THEN Outcome(FALSE, EnvelopeErrorFallback(raw_bytes), <<"envelope", "return_error">>,
                 NoResolve(cache), "none")
    ELSE IF IsZlib(raw_bytes[2])
    THEN AfterDecompress(zlib_decompress(AvroPayload(raw_bytes)), raw_bytes,
                         u.s, cache, remote, <<"envelope", "uuid", "zlib">>)
    ELSE AfterDecompress([raised |-> FALSE, out |-> AvroPayload(raw_bytes)], raw_bytes,
                         u.s, cache, remote, <<"envelope", "uuid">>)

\* lines 152-178: the branch taken when the header is detected
EnvelopePath(raw_bytes, cache, remote) ==
    AfterUuid(uuid_UUID(SchemaUuidBytes(raw_bytes)), raw_bytes, cache, remote)

AfterRawDecodeUnchecked(decoded, raw_bytes, r) ==
    Outcome(FALSE, decoded, <<"json", "by_name", "raw_decode", "return_raw_decoded">>,
            r, "by_name")

\* lines 193-200, given the decoder's result
AfterRawDecode(decoded, raw_bytes, r) ==
    IF IsDict(decoded) /\ "decode_error" \notin Keys(decoded)
    THEN Outcome(FALSE, decoded, <<"json", "by_name", "raw_decode", "return_raw_decoded">>,
                 r, "by_name")
    ELSE IF ~IsDict(decoded)
    \* line 197: decoded.get on a value that is no dict
    THEN Outcome(TRUE, NoneVal, <<"json", "by_name", "raw_decode", "AttributeError">>,
                 r, "by_name")
    ELSE Outcome(FALSE, TerminalFallback(raw_bytes),
                 <<"json", "by_name", "raw_decode", "terminal">>, r, "by_name")

\* lines 190-200, given the schema the resolver returned
AfterByName(r, raw_bytes) ==
    IF Truthy(r.ret)
    THEN AfterRawDecode(decode_avro_payload(raw_bytes, r.ret), raw_bytes, r)
    ELSE Outcome(FALSE, TerminalFallback(raw_bytes), <<"json", "by_name", "terminal">>,
                 r, "by_name")

\* lines 181-200, given what json.loads did
AfterJson(j, raw_bytes, topic, cache, remote) ==
    IF j.ok
    THEN Outcome(FALSE, j.value, <<"json", "return_json">>, NoResolve(cache), "none")
    \* line 183 catches JSONDecodeError and UnicodeDecodeError only
    ELSE IF j.ex = "RecursionError"
    THEN Outcome(TRUE, NoneVal, <<"json", "RecursionError">>, NoResolve(cache), "none")
    ELSE IF topic \in DOMAIN TOPIC_SCHEMA_MAP /\ FASTAVRO_AVAILABLE
    THEN AfterByName(get_schema_by_name(cache, TOPIC_SCHEMA_MAP[topic], remote), raw_bytes)
    ELSE Outcome(FALSE, TerminalFallback(raw_bytes), <<"json", "terminal">>,
                 NoResolve(cache), "none")

\* lines 180-200: JSON, then raw Avro by topic, then the raw-bytes fallback
PlainPath(raw_bytes, topic, cache, remote) ==
    AfterJson(json_loads(raw_bytes), raw_bytes, topic, cache, remote)

deserialize_message(raw_bytes, topic, cache, remote) ==
    IF HasEnvelope(raw_bytes) THEN EnvelopePath(raw_bytes, cache, remote)
    ELSE PlainPath(raw_bytes, topic, cache, remote)

(***************************************************************************)
(* Inputs.                                                                 *)
(***************************************************************************)
Header(compression, uuid) == <<HEADER_VERSION, compression>> \o uuid

EnvelopeBodies == {<<0>>, <<255>>, ZlibOfTwo}
CompressionCodes == {0, 5, 1}

EnvelopeMessages ==
    {Header(c, u) \o body : c \in CompressionCodes, u \in UuidBytesSet, body \in EnvelopeBodies}

PlainMessages ==
    { <<>>, <<0>>, <<3>>, <<255>>,
      TextEmptyObject, TextEmptyArray, TextNull, TextOne, TextTrip, TextDeep,
      TextDeepOpen, TextNaN,
      Header(0, UuidRecord),                    \* 18 bytes, first byte 0x03
      <<0, 0>> \o UuidRecord \o <<2>> }         \* 19 bytes, first byte 0x00

RawBytesSet == EnvelopeMessages \cup PlainMessages

Topics == {"taxi-trips", "taxi-locations", "orders"}

(***************************************************************************)
(* The state machine: the module is imported, then its functions are       *)
(* called one after the other.                                             *)
(***************************************************************************)
\* no worker
NoRace == [w |-> <<>>, inserted |-> <<>>, registered |-> FALSE]

\* the registry as it is when the process starts
LatestDefinitions == [name \in DOMAIN GlueLatest |-> GlueLatest[name].def]

\* no invocation of lambda_handler yet
HandlerIdle ==
    [pc |-> "idle", pending |-> <<>>, all_event_payloads |-> <<>>, processed_count |-> 0,
     error_count |-> 0, saved_count |-> 0, saved_ids |-> <<>>, written |-> {},
     write |-> "", log |-> <<>>, total |-> 0, result |-> 0]

NoPrev == [op |-> "none", arg |-> <<>>, hit |-> FALSE, calls |-> 0, schema |-> NoSchema]

Idle ==
    [op |-> "idle", raw_bytes |-> <<>>, topic |-> "", arg |-> <<>>, raised |-> FALSE,
     ret |-> NoneVal, steps |-> <<>>, resolver |-> "none", schema |-> NoSchema,
     hit |-> FALSE, calls |-> 0, key |-> <<>>, stored |-> FALSE, remote |-> ""]

Init ==
    /\ FASTAVRO_AVAILABLE \in BOOLEAN
    /\ glue_client \in BOOLEAN
    /\ GLUE_REGISTRY_NAME \in BOOLEAN
    /\ schema_cache = <<>>
    /\ cache_origin = <<>>
    /\ last = Idle
    /\ prev = NoPrev
    \* lambda_handler is not invoked in this specification
    /\ APPSYNC_HTTP_ENDPOINT = FALSE
    /\ events_table = FALSE
    /\ handler = HandlerIdle
    /\ race = NoRace
    /\ latest = LatestDefinitions

OriginAfter(o, kind) ==
    IF o.stored
    THEN [k \in DOMAIN cache_origin \cup {o.key} |-> IF k = o.key THEN kind ELSE cache_origin[k]]
    ELSE cache_origin

\* the state after a call whose outcome is o
Called(o, op, raw_bytes, topic, arg, remote) ==
    /\ last.op = "idle"
    /\ schema_cache' = o.cache
    /\ cache_origin' = OriginAfter(o, o.resolver)
    /\ last' = [op |-> op, raw_bytes |-> raw_bytes, topic |-> topic, arg |-> arg,
                raised |-> o.raised, ret |-> o.ret, steps |-> o.steps,
                resolver |-> o.resolver, schema |-> o.schema, hit |-> o.hit,
                calls |-> o.calls, key |-> o.key, stored |-> o.stored, remote |-> remote]
    /\ UNCHANGED <<FASTAVRO_AVAILABLE, glue_client, GLUE_REGISTRY_NAME, prev>>
    /\ UNCHANGED handler_vars
    /\ UNCHANGED race_vars

\* a direct call of a resolver
GetAvroSchema(schema_version_id, remote) ==
    Called(Outcome(FALSE, NoneVal, <<>>,
                   get_avro_schema(schema_cache, schema_version_id, remote), "by_id"),
           "get_avro_schema", <<>>, "", schema_version_id, remote)

GetSchemaByName(schema_name, remote) ==
    Called(Outcome(FALSE, NoneVal, <<>>,
                   get_schema_by_name(schema_cache, schema_name, remote), "by_name"),
           "get_schema_by_name", <<>>, "", schema_name, remote)

DeserializeMessage(raw_bytes, topic, remote) ==
    Called(deserialize_message(raw_bytes, topic, schema_cache, remote),
           "deserialize_message", raw_bytes, topic, <<>>, remote)

\* the caller takes the result; the call becomes the previous call
Return ==
    /\ last.op # "idle"
    /\ prev' = IF last.op # "get_avro_schema" THEN NoPrev
               ELSE [op |-> last.op, arg |-> last.arg, hit |-> last.hit,
                     calls |-> last.calls, schema |-> last.schema]
    /\ last' = Idle
    /\ UNCHANGED <<FASTAVRO_AVAILABLE, glue_client, GLUE_REGISTRY_NAME, schema_cache, cache_origin>>
    /\ UNCHANGED handler_vars
    /\ UNCHANGED race_vars

Next ==
    \/ \E id \in SchemaVersionIds, remote \in RemoteOutcomes : GetAvroSchema(id, remote)
    \/ \E name \in SchemaNames, remote \in RemoteOutcomes : GetSchemaByName(name, remote)
    \/ \E raw_bytes \in RawBytesSet, topic \in Topics, remote \in RemoteOutcomes :
            DeserializeMessage(raw_bytes, topic, remote)
    \/ Return

Spec == Init /\ [][Next]_vars

(***************************************************************************)
(* lambda_handler (lines 440-506) with publish_to_appsync (399-437) and    *)
(* batch_save_to_dynamodb (299-396).  One invocation is followed from the  *)
(* import of the module: the records of the event are handled one by one,  *)
(* then the collected payloads are saved and the result is returned.       *)
(***************************************************************************)
DecimalDigits == <<"0", "1", "2", "3", "4", "5", "6", "7", "8", "9">>

RECURSIVE NatStr(_)
NatStr(n) ==
    IF n < 10 THEN <<DecimalDigits[n + 1]>>
    ELSE NatStr(n \div 10) \o <<DecimalDigits[(n % 10) + 1]>>

\* str(n), as an f-string formats an int
IntStr(n) == IF n < 0 THEN <<"-">> \o NatStr(-n) ELSE NatStr(n)

LastDash(s) ==
    IF \A i \in 1..Len(s) : s[i] # "-" THEN 0
    ELSE CHOOSE i \in 1..Len(s) : s[i] = "-" /\ \A j \in (i + 1)..Len(s) : s[j] # "-"

\* topic_partition.rsplit('-', 1)[0]
RsplitHead(s) == IF LastDash(s) = 0 THEN s ELSE SubSeq(s, 1, LastDash(s) - 1)

TopicTaxiTrips == <<"t", "a", "x", "i", "-", "t", "r", "i", "p", "s">>
TopicTaxiLocations == <<"t", "a", "x", "i", "-", "l", "o", "c", "a", "t", "i", "o", "n", "s">>
TopicOrders == <<"o", "r", "d", "e", "r", "s">>

\* the topic string as the key of TOPIC_SCHEMA_MAP
TopicNames ==
    (TopicTaxiTrips :> "taxi-trips")
        @@ (TopicTaxiLocations :> "taxi-locations")
        @@ (TopicOrders :> "orders")

\* the values and keys of the records, before MSK encodes them in base64
HandlerValues == {TextTrip, TextEmptyArray, <<0>>, Header(0, UuidBytes) \o <<2, 65>>}
KeyBytes == {<<107>>, <<255>>}                           \* b'k', b'\xff'

\* base64.b64decode of a text b64encode produced
b64decode(s) == CHOOSE b \in HandlerValues \cup KeyBytes : b64encode(b) = s

AsciiChars == (107 :> "k")

\* bytes.decode('utf-8') of line 463
decode_utf8(b) ==
    IF Utf8Valid(b) THEN [raised |-> FALSE, s |-> [i \in 1..Len(b) |-> AsciiChars[b[i]]]]
    ELSE [raised |-> TRUE, s |-> <<>>]

\* a record of the event, listed under the key tp of event['records']; an
\* absent key is the empty string
EventRecord(tp, partition, offset, key, value) ==
    [tp |-> tp, partition |-> partition, offset |-> offset, timestamp |-> 1,
     key |-> key, value |-> b64encode(value)]

EventRecords ==
    { EventRecord(TopicTaxiTrips \o <<"-", "0">>, 0, 7, b64encode(<<107>>), TextTrip),
      EventRecord(TopicTaxiTrips \o <<"-", "0">>, 0, 8, b64encode(<<255>>), TextTrip),
      EventRecord(TopicOrders \o <<"-", "0">>, 0, 7, <<>>, TextTrip),
      EventRecord(TopicTaxiLocations \o <<"-", "0">>, 0, 7, <<>>, <<0>>),
      EventRecord(TopicOrders \o <<"-", "1">>, 1, 7, <<>>, TextEmptyArray),
      EventRecord(TopicOrders \o <<"-", "1">>, 1, 8, <<>>, Header(0, UuidBytes) \o <<2, 65>>) }

MaxBatch == 2

\* the records of an event, in the order the two loops visit them
Events == UNION {[1..n -> EventRecords] : n \in 1..MaxBatch}

KeyNone == [present |-> FALSE, s |-> <<>>]

\* lines 461-463
KeyDecoded(k) ==
    IF k.raised THEN [raised |-> TRUE, key |-> KeyNone]
    ELSE [raised |-> FALSE, key |-> [present |-> TRUE, s |-> k.s]]

RecordKey(record) ==
    IF record.key = <<>> THEN [raised |-> FALSE, key |-> KeyNone]
    ELSE KeyDecoded(decode_utf8(b64decode(record.key)))

\* lines 465-473
EventPayload(record, topic, key, data) ==
    [topic |-> topic, partition |-> record.partition, offset |-> record.offset,
     timestamp |-> record.timestamp, key |-> key, data |-> data, processed_at |-> "utcnow"]

\* json.dumps(event_data, cls=DecimalEncoder) of line 411 raises TypeError on bytes
JsonSerializable(event_data) == event_data.data.type # "bytes"

HttpOutcomes == {"ok", "error"}

\* "true", "false": the value returned; "raise": line 411 raised
publish_to_appsync(event_data, http) ==
    IF ~APPSYNC_HTTP_ENDPOINT THEN "false"
    ELSE IF ~JsonSerializable(event_data) THEN "raise"
    ELSE IF http = "ok" THEN "true"
    ELSE "false"

\* data.get('PULocationID') of line 334, on a dict
PULocationID(data) ==
    IF "PULocationID" \in DOMAIN data.d THEN [none |-> FALSE, leaf |-> data.d.PULocationID]
    ELSE [none |-> TRUE, leaf |-> IntLeaf(0)]

LeafStr(leaf) == IF leaf.t = "int" THEN IntStr(leaf.n) ELSE leaf.s

\* lines 353-356
PartitionKey(pu, topic) ==
    IF ~pu.none THEN <<"L", "O", "C", "#">> \o LeafStr(pu.leaf)
    ELSE <<"T", "O", "P", "I", "C", "#">> \o topic

\* line 360
SortKey(partition, offset) ==
    <<"P", "#">> \o IntStr(partition) \o <<"#", "O", "#">> \o IntStr(offset)

\* line 350
EventId(topic, partition, offset) ==
    topic \o <<"-">> \o IntStr(partition) \o <<"-">> \o IntStr(offset)

\* lines 358-381: the attributes of the item that identify it
Item(event_payload) ==
    [pk |-> PartitionKey(PULocationID(event_payload.data), event_payload.topic),
     sk |-> SortKey(event_payload.partition, event_payload.offset),
     id |-> EventId(event_payload.topic, event_payload.partition, event_payload.offset)]

\* the payloads before the first one whose data is no dict: data.get of line
\* 334 raises on it, and the except of line 393 ends the loop
RECURSIVE PutBeforeFailure(_)
PutBeforeFailure(event_payloads) ==
    IF event_payloads = <<>> \/ ~IsDict(Head(event_payloads).data) THEN <<>>
    ELSE <<Item(Head(event_payloads))>> \o PutBeforeFailure(Tail(event_payloads))

\* BatchWriteItem rejects a batch that holds two items with one primary key
DuplicateKeys(items) ==
    \E i, j \in 1..Len(items) : i < j /\ items[i].pk = items[j].pk /\ items[i].sk = items[j].sk

WriteOutcomes == {"accept", "raise"}

\* the ids appended to saved_ids (line 388) and the items the table holds after
\* the batch writer has flushed
SavedAndWritten(items, write) ==
    [saved_ids |-> [i \in 1..Len(items) |-> items[i].id],
     written |-> IF write = "accept" /\ ~DuplicateKeys(items)
                 THEN {items[i] : i \in 1..Len(items)} ELSE {}]

batch_save_to_dynamodb(event_payloads, write) ==
    IF ~events_table \/ event_payloads = <<>> THEN [saved_ids |-> <<>>, written |-> {}]
    ELSE SavedAndWritten(PutBeforeFailure(event_payloads), write)

HandlerInit ==
    /\ FASTAVRO_AVAILABLE \in BOOLEAN
    /\ glue_client \in BOOLEAN
    /\ GLUE_REGISTRY_NAME = TRUE
    /\ APPSYNC_HTTP_ENDPOINT \in BOOLEAN
    \* the table object and the glue client come from the same import of boto3
    /\ events_table \in {e \in BOOLEAN : e => glue_client}
    /\ schema_cache = <<>>
    /\ cache_origin = <<>>
    /\ last = Idle
    /\ prev = NoPrev
    /\ handler = HandlerIdle
    /\ race = NoRace
    /\ latest = LatestDefinitions

\* lines 445-453
Invoke(event) ==
    /\ handler.pc = "idle"
    /\ handler' = [HandlerIdle EXCEPT !.pc = "loop", !.pending = event, !.total = Len(event)]
    /\ UNCHANGED <<FASTAVRO_AVAILABLE, glue_client, GLUE_REGISTRY_NAME, schema_cache,
                   cache_origin, last, prev, APPSYNC_HTTP_ENDPOINT, events_table>>
    /\ UNCHANGED race_vars

LogEntry(record, o, key_raised, collected, publish) ==
    [record |-> record, raised |-> o.raised, ret |-> o.ret, key_raised |-> key_raised,
     collected |-> collected, publish |-> publish]

PublishedBeforeCollected(record, o, event_payload, publish) ==
    IF publish = "raise"
    THEN [handler EXCEPT !.pending = Tail(handler.pending),
                         !.error_count = handler.error_count + 1,
                         !.log = Append(handler.log, LogEntry(record, o, FALSE, FALSE, publish))]
    ELSE [handler EXCEPT !.pending = Tail(handler.pending),
                         !.all_event_payloads = Append(handler.all_event_payloads, event_payload),
                         !.processed_count = handler.processed_count + (IF publish = "true" THEN 1 ELSE 0),
                         !.error_count = handler.error_count + (IF publish = "true" THEN 0 ELSE 1),
                         !.log = Append(handler.log, LogEntry(record, o, FALSE, TRUE, publish))]

\* lines 475-482, given the payload and what the publish call did
Published(record, o, event_payload, publish) ==
    [handler EXCEPT !.pending = Tail(handler.pending),
                    !.all_event_payloads = Append(handler.all_event_payloads, event_payload),
                    !.processed_count = handler.processed_count + (IF publish = "true" THEN 1 ELSE 0),
                    !.error_count = handler.error_count + (IF publish = "true" THEN 0 ELSE 1),
                    !.log = Append(handler.log, LogEntry(record, o, FALSE, TRUE, publish))]

RecordFailedUncounted(record, o, key_raised) ==
    [handler EXCEPT !.pending = Tail(handler.pending),
                    !.log = Append(handler.log, LogEntry(record, o, key_raised, FALSE, "none"))]

\* the except of lines 484-486
RecordFailed(record, o, key_raised) ==
    [handler EXCEPT !.pending = Tail(handler.pending),
                    !.error_count = handler.error_count + 1,
                    !.log = Append(handler.log, LogEntry(record, o, key_raised, FALSE, "none"))]

\* lines 461-482, given the key
AfterKey(record, topic, o, k, http) ==
    IF k.raised THEN RecordFailed(record, o, TRUE)
    ELSE Published(record, o, EventPayload(record, topic, k.key, o.ret),
                   publish_to_appsync(EventPayload(record, topic, k.key, o.ret), http))

\* lines 458-486, given what deserialize_message did
AfterDeserialize(record, topic, o, http) ==
    /\ handler' = IF o.raised THEN RecordFailed(record, o, FALSE)
                  ELSE AfterKey(record, topic, o, RecordKey(record), http)
    /\ schema_cache' = o.cache
    /\ cache_origin' = OriginAfter(o, o.resolver)

HandleRecord(record, topic, remote, http) ==
    AfterDeserialize(record, topic,
                     deserialize_message(b64decode(record.value), TopicNames[topic],
                                         schema_cache, remote),
                     http)

\* one iteration of the loop of lines 457-486
ProcessRecord(remote, http) ==
    /\ handler.pc = "loop"
    /\ handler.pending # <<>>
    /\ HandleRecord(Head(handler.pending), RsplitHead(Head(handler.pending).tp), remote, http)
    /\ UNCHANGED <<FASTAVRO_AVAILABLE, glue_client, GLUE_REGISTRY_NAME, last, prev,
                   APPSYNC_HTTP_ENDPOINT, events_table>>
    /\ UNCHANGED race_vars

\* write is history: what the table did with the batch
Saved(r, write) ==
    [handler EXCEPT !.pc = "done", !.saved_ids = r.saved_ids, !.saved_count = Len(r.saved_ids),
                    !.written = r.written, !.write = write, !.result = 200]

\* lines 488-506
SaveAndReturn(write) ==
    /\ handler.pc = "loop"
    /\ handler.pending = <<>>
    /\ handler' = Saved(batch_save_to_dynamodb(handler.all_event_payloads, write), write)
    /\ UNCHANGED <<FASTAVRO_AVAILABLE, glue_client, GLUE_REGISTRY_NAME, schema_cache,
                   cache_origin, last, prev, APPSYNC_HTTP_ENDPOINT, events_table>>
    /\ UNCHANGED race_vars

HandlerNext ==
    \/ \E event \in Events : Invoke(event)
    \/ \E remote \in RemoteOutcomes, http \in HttpOutcomes : ProcessRecord(remote, http)
    \/ \E write \in WriteOutcomes : SaveAndReturn(write)

HandlerSpec == HandlerInit /\ [][HandlerNext]_vars

(***************************************************************************)
(* The resolvers run by several workers at once.  The statements of a      *)
(* resolver are the steps: the cache test (lines 62, 88), the registry     *)
(* call with the parse (69-74, 95-103) and the cache insert (75, 104).     *)
(* Meanwhile the registry may get a new latest version of a schema.        *)
(***************************************************************************)
NumWorkers == 2
Workers == 1..NumWorkers

Lookups ==
    {[kind |-> "by_id", arg |-> UuidStr(UuidRecord)],
     [kind |-> "by_id", arg |-> UuidStr(UuidArray)],
     [kind |-> "by_name", arg |-> SchemaTaxiTrip]}

\* the cache key of a lookup (lines 62, 87)
LookupKey(lookup) ==
    IF lookup.kind = "by_id" THEN lookup.arg ELSE NameCacheKey(lookup.arg)

WorkerStart(lookup) ==
    [pc |-> "check", kind |-> lookup.kind, arg |-> lookup.arg, key |-> LookupKey(lookup),
     fetched |-> NoSchema, ret |-> NoSchema]

RaceInit ==
    /\ FASTAVRO_AVAILABLE \in BOOLEAN
    /\ glue_client \in BOOLEAN
    /\ GLUE_REGISTRY_NAME = TRUE
    /\ APPSYNC_HTTP_ENDPOINT = FALSE
    /\ events_table = FALSE
    /\ schema_cache = <<>>
    /\ cache_origin = <<>>
    /\ last = Idle
    /\ prev = NoPrev
    /\ handler = HandlerIdle
    /\ \E lookups \in [Workers -> Lookups] :
          race = [w |-> [x \in Workers |-> WorkerStart(lookups[x])],
                  inserted |-> [k \in {LookupKey(l) : l \in Lookups} |-> {}],
                  registered |-> FALSE]
    /\ latest = LatestDefinitions

\* the worker's record after a step
WorkerAt(x, pc, fetched, ret) ==
    [race EXCEPT !.w[x].pc = pc, !.w[x].fetched = fetched, !.w[x].ret = ret]

\* lines 62-67, 88-93
CacheCheck(x) ==
    /\ race.w[x].pc = "check"
    /\ race' = IF CacheHit(schema_cache, race.w[x].key)
               THEN WorkerAt(x, "done", NoSchema, schema_cache[race.w[x].key])
               ELSE IF ~glue_client \/ (race.w[x].kind = "by_name" /\ ~GLUE_REGISTRY_NAME)
               THEN WorkerAt(x, "done", NoSchema, NoSchema)
               ELSE WorkerAt(x, "fetch", NoSchema, NoSchema)
    /\ UNCHANGED <<FASTAVRO_AVAILABLE, glue_client, GLUE_REGISTRY_NAME, schema_cache,
                   cache_origin, last, prev, latest>>
    /\ UNCHANGED handler_vars

\* get_schema_version(SchemaId=..., LatestVersion) against the registry as it is now
get_latest_schema_version(schema_name, remote) ==
    IF remote = "fail" \/ schema_name \notin DOMAIN latest THEN [raised |-> TRUE, def |-> ""]
    ELSE [raised |-> FALSE, def |-> latest[schema_name]]

WorkerResponse(x, remote) ==
    IF race.w[x].kind = "by_id" THEN get_schema_version_by_id(race.w[x].arg, remote)
    ELSE get_latest_schema_version(race.w[x].arg, remote)

Fetched(x, parsed) ==
    IF parsed.raised THEN WorkerAt(x, "done", NoSchema, NoSchema)
    ELSE WorkerAt(x, "insert", parsed.schema, NoSchema)

\* lines 69-74 and 78-80, 95-103 and 108-110
Fetch(x, remote) ==
    /\ race.w[x].pc = "fetch"
    /\ race' = Fetched(x, ParsedResponse(WorkerResponse(x, remote)))
    /\ UNCHANGED <<FASTAVRO_AVAILABLE, glue_client, GLUE_REGISTRY_NAME, schema_cache,
                   cache_origin, last, prev, latest>>
    /\ UNCHANGED handler_vars

\* lines 75-77, 104-106
Insert(x) ==
    /\ race.w[x].pc = "insert"
    /\ schema_cache' = CacheStore(schema_cache, race.w[x].key, race.w[x].fetched)
    /\ cache_origin' = [k \in DOMAIN cache_origin \cup {race.w[x].key} |->
                            IF k = race.w[x].key THEN race.w[x].kind ELSE cache_origin[k]]
    /\ race' = [race EXCEPT !.w[x].pc = "done", !.w[x].ret = race.w[x].fetched,
                            !.inserted[race.w[x].key] = @ \cup {race.w[x].fetched}]
    /\ UNCHANGED <<FASTAVRO_AVAILABLE, glue_client, GLUE_REGISTRY_NAME, last, prev, latest>>
    /\ UNCHANGED handler_vars

\* a producer registers a new version of the trip schema
RegisterVersion ==
    /\ ~race.registered
    /\ latest' = [latest EXCEPT ![SchemaTaxiTrip] = "RecordV2Def"]
    /\ race' = [race EXCEPT !.registered = TRUE]
    /\ UNCHANGED <<FASTAVRO_AVAILABLE, glue_client, GLUE_REGISTRY_NAME, schema_cache,
                   cache_origin, last, prev>>
    /\ UNCHANGED handler_vars

RaceNext ==
    \/ \E x \in Workers : CacheCheck(x)
    \/ \E x \in Workers, remote \in RemoteOutcomes : Fetch(x, remote)
    \/ \E x \in Workers : Insert(x)
    \/ RegisterVersion

RaceSpec == RaceInit /\ [][RaceNext]_vars

(***************************************************************************)
(* Properties.                                                             *)
(***************************************************************************)
Decoded == last.op = "deserialize_message"
Visited(site) == \E i \in 1..Len(last.steps) : last.steps[i] = site
\* the header test, on the bytes themselves
EnvelopeBearing == Len(last.raw_bytes) > 18 /\ last.raw_bytes[1] = 3
ResolverCalled == last.resolver # "none"

\* C1: deserialize_message never raises, whatever the bytes, the topic, the
\* cache and the outcomes of the registry, of zlib and of the decoder.
C1_NeverRaises == Decoded => ~last.raised

\* C2: every value deserialize_message returns is a mapping.
C2_ReturnsMapping == (Decoded /\ ~last.raised) => IsDict(last.ret)

\* C3: the envelope path is entered iff the payload is longer than 18 bytes and
\* starts with 0x03; otherwise no schema id is extracted, the by-id resolver is
\* not called and the first strategy tried is JSON.
C3_EnvelopeIffLongAndVersioned ==
    Decoded =>
        /\ Visited("envelope") <=> EnvelopeBearing
        /\ ~EnvelopeBearing =>
            /\ ~Visited("uuid")
            /\ last.resolver # "by_id"
            /\ Head(last.steps) = "json"

\* a payload of exactly 18 bytes that starts with 0x03 went to the JSON strategy
C3_Witness ==
    /\ Decoded
    /\ Len(last.raw_bytes) = 18
    /\ last.raw_bytes[1] = 3
    /\ Head(last.steps) = "json"

\* C4: once the envelope is detected the call returns from the envelope path:
\* JSON is not attempted, the by-name resolver is not called, and the bare
\* fallback {raw_bytes} is not what is returned.
C4_EnvelopePathIsFinal ==
    (Decoded /\ EnvelopeBearing) =>
        /\ ~last.raised
        /\ ~Visited("json") /\ ~Visited("by_name") /\ ~Visited("raw_decode")
        /\ ~Visited("terminal")
        /\ last.resolver # "by_name"
        /\ last.steps[Len(last.steps)] \in {"return_decoded", "return_unresolved", "return_error"}
        /\ ~(IsDict(last.ret) /\ Keys(last.ret) = {"raw_bytes"})

\* an envelope whose schema was not resolved, on a topic that has a schema name
C4_Witness ==
    /\ Decoded /\ EnvelopeBearing
    /\ last.topic \in DOMAIN TOPIC_SCHEMA_MAP
    /\ last.steps[Len(last.steps)] = "return_unresolved"

\* the by-id resolver was called for an envelope and returned no schema
EnvelopeUnresolved ==
    Decoded /\ EnvelopeBearing /\ last.resolver = "by_id" /\ last.schema = NoSchema

\* C5 as stated: an envelope whose schema the by-id resolver does not resolve
\* yields exactly {schema_version_id: uuid string of bytes 2..17, raw_bytes:
\* base64 of bytes[18:] as received}, for any compression code.
C5_UnresolvedAsReceived ==
    EnvelopeUnresolved =>
        last.ret = DictVal([schema_version_id |-> StrLeaf(UuidStr(SubSeq(last.raw_bytes, 3, 18))),
                            raw_bytes |-> StrLeaf(b64encode(SubSeq(last.raw_bytes, 19,
                                                                   Len(last.raw_bytes))))])

\* C5 amended: raw_bytes is base64 of the payload after the envelope, as received
\* when the compression code is not 0x05 and decompressed when it is.
C5_UnresolvedAfterDecompression ==
    EnvelopeUnresolved =>
        LET payload == SubSeq(last.raw_bytes, 19, Len(last.raw_bytes))
        IN  /\ last.raw_bytes[2] = 5 => payload \in DOMAIN ZlibStreams
            /\ last.ret =
                DictVal([schema_version_id |-> StrLeaf(UuidStr(SubSeq(last.raw_bytes, 3, 18))),
                         raw_bytes |-> StrLeaf(b64encode(IF last.raw_bytes[2] = 5
                                                         THEN ZlibStreams[payload]
                                                         ELSE payload))])

\* an unresolved envelope whose payload was decompressed
C5_Witness == EnvelopeUnresolved /\ last.raw_bytes[2] = 5 /\ Visited("zlib")

\* an envelope with compression code 0x05 whose payload is no deflate data
CorruptDeflate ==
    /\ Decoded /\ EnvelopeBearing
    /\ last.raw_bytes[2] = 5
    /\ SubSeq(last.raw_bytes, 19, Len(last.raw_bytes)) \notin DOMAIN ZlibStreams

\* C6 as stated: corrupt deflate data yields, without raising, a fallback
\* mapping in which decode_error is set.
C6_CorruptDeflateSetsDecodeError ==
    CorruptDeflate =>
        ~last.raised /\ IsDict(last.ret) /\ {"raw_bytes", "decode_error"} \subseteq Keys(last.ret)

\* C6 amended: corrupt deflate data yields, without raising, a fallback mapping
\* in which error is set and decode_error is not, resolvable schema or not.
C6_CorruptDeflateSetsError ==
    CorruptDeflate =>
        ~last.raised /\ IsDict(last.ret) /\ Keys(last.ret) = {"raw_bytes", "error"}

\* corrupt deflate data under a schema id the registry holds
C6_Witness ==
    /\ CorruptDeflate
    /\ UuidStr(SubSeq(last.raw_bytes, 3, 18)) \in DOMAIN GlueVersions
    /\ "error" \in Keys(last.ret)

\* C7: the cache never holds a null entry, and a resolution that fails returns
\* null without raising and leaves the cache as it was.
C7_NoNegativeCaching ==
    [][ /\ \A k \in DOMAIN schema_cache' : schema_cache'[k] # NoSchema
        /\ (last'.resolver # "none" /\ last'.schema = NoSchema) =>
                (schema_cache' = schema_cache /\ ~last'.raised) ]_vars

\* a resolution failed on a remote call while the cache held entries
C7_Witness ==
    /\ ResolverCalled /\ last.schema = NoSchema /\ last.calls = 1
    /\ DOMAIN schema_cache # {}

\* C8 as stated: a resolver call makes no registry call on a cache hit and
\* exactly one on a cache miss, in every configuration.
C8_OneCallPerMiss ==
    [][ last'.resolver # "none" =>
            last'.calls = IF last'.key \in DOMAIN schema_cache THEN 0 ELSE 1 ]_vars

\* C8 amended: exactly one registry call on a miss when the glue client exists
\* (and, by name, the registry name is set); none on a miss otherwise; none on
\* a hit.
C8_OneCallPerMissWithClient ==
    [][ last'.resolver # "none" =>
            last'.calls = IF last'.key \in DOMAIN schema_cache THEN 0
                          ELSE IF glue_client /\ (last'.resolver = "by_id" \/ GLUE_REGISTRY_NAME)
                          THEN 1
                          ELSE 0 ]_vars

\* a miss that made no registry call
C8_Witness ==
    ResolverCalled /\ ~last.hit /\ last.calls = 0 /\ last.key \notin DOMAIN schema_cache

\* the same id was resolved by two calls of get_avro_schema in a row
TwiceInARow ==
    last.op = "get_avro_schema" /\ prev.op = "get_avro_schema" /\ prev.arg = last.arg

\* C9 as stated: two resolutions of one id in a row make one registry call in
\* total, the second being a cache hit.
C9_TwiceOneCall == TwiceInARow => (prev.calls + last.calls = 1 /\ last.hit)

\* C9 amended: so it is when the first resolution is a miss that succeeds.
C9_TwiceOneCallAfterSuccess ==
    (TwiceInARow /\ ~prev.hit /\ prev.schema # NoSchema) =>
        (prev.calls + last.calls = 1 /\ last.hit)

C9_Witness == TwiceInARow /\ ~prev.hit /\ prev.schema # NoSchema /\ last.hit

\* C10: a by-id lookup never returns an entry a by-name lookup inserted, and a
\* by-name lookup never one a by-id lookup inserted.
C10_NoKeyCollision ==
    (ResolverCalled /\ last.hit) => cache_origin[last.key] = last.resolver

\* both kinds of entry are cached and a lookup has just hit one
C10_Witness ==
    /\ ResolverCalled /\ last.hit
    /\ \E k1, k2 \in DOMAIN cache_origin : cache_origin[k1] = "by_id" /\ cache_origin[k2] = "by_name"

\* the payloads of the model that are JSON texts (RFC 8259)
JsonDocuments == {TextEmptyObject, TextEmptyArray, TextNull, TextOne, TextTrip, TextDeep}

EnvelopeFree == Decoded /\ ~EnvelopeBearing

\* C11: an envelope-free payload that is a UTF-8 JSON text is returned parsed,
\* on any topic, with no resolver lookup, no registry call and no cache insert.
C11_JsonWithoutResolver ==
    (EnvelopeFree /\ last.raw_bytes \in JsonDocuments) =>
        /\ ~last.raised
        /\ last.raw_bytes \in DOMAIN JsonTexts => last.ret = JsonTexts[last.raw_bytes]
        /\ last.resolver = "none" /\ last.calls = 0 /\ ~last.stored

\* C12: an envelope-free payload that is no UTF-8 JSON text, on a topic without
\* an entry in the topic map, yields exactly {raw_bytes: base64(input)} and no
\* resolver call.
C12_UnmappedTopicTerminal ==
    (EnvelopeFree /\ last.raw_bytes \notin JsonDocuments
                  /\ last.topic \notin DOMAIN TOPIC_SCHEMA_MAP) =>
        /\ ~last.raised
        /\ last.ret = DictVal([raw_bytes |-> StrLeaf(b64encode(last.raw_bytes))])
        /\ last.resolver = "none" /\ last.calls = 0

\* a mapping with the key raw_bytes was returned
ReturnedRawBytes == Decoded /\ ~last.raised /\ IsDict(last.ret) /\ "raw_bytes" \in Keys(last.ret)

\* bytes[18:] of the input, decompressed when the compression code is 0x05
PayloadAfterEnvelope ==
    IF last.raw_bytes[2] = 5
    THEN ZlibStreams[SubSeq(last.raw_bytes, 19, Len(last.raw_bytes))]
    ELSE SubSeq(last.raw_bytes, 19, Len(last.raw_bytes))

\* C13 as stated: in every returned mapping that contains raw_bytes, raw_bytes
\* is base64 of the complete input.
C13_RawBytesIsInput ==
    ReturnedRawBytes => last.ret.d.raw_bytes = StrLeaf(b64encode(last.raw_bytes))

\* C13 amended: the terminal and the envelope-error fallback carry base64 of
\* the complete input; the schema-unresolved and the decode-error fallback
\* carry base64 of the payload after the envelope, decompressed under 0x05.
C13_RawBytesIsInputOrPayload ==
    ReturnedRawBytes =>
        /\ Keys(last.ret) \in {{"raw_bytes"}, {"raw_bytes", "error"},
                               {"raw_bytes", "schema_version_id"},
                               {"raw_bytes", "decode_error"}}
        /\ last.ret.d.raw_bytes =
             IF Keys(last.ret) \in {{"raw_bytes"}, {"raw_bytes", "error"}}
             THEN StrLeaf(b64encode(last.raw_bytes))
             ELSE StrLeaf(b64encode(PayloadAfterEnvelope))

\* the decode-error fallback of a decompressed payload was returned
C13_Witness ==
    /\ ReturnedRawBytes
    /\ "decode_error" \in Keys(last.ret) /\ last.raw_bytes[2] = 5

\* an envelope whose compression code is neither 0x00 nor 0x05
OtherCompression == Decoded /\ EnvelopeBearing /\ last.raw_bytes[2] \notin {0, 5}

\* C14 as stated: a compression code other than 0x00 and 0x05 never raises and
\* always yields a mapping with raw_bytes, never a structured decode.
C14_OtherCodeFallsBack ==
    OtherCompression => ~last.raised /\ IsDict(last.ret) /\ "raw_bytes" \in Keys(last.ret)

\* C14 amended: such a code never raises and is handled as no compression:
\* bytes[18:] as received go to the decoder when the schema resolves and into
\* the schema-unresolved fallback when it does not.
C14_OtherCodeIsIdentity ==
    OtherCompression =>
        /\ ~last.raised /\ ~Visited("zlib") /\ last.resolver = "by_id"
        /\ last.ret =
             IF last.schema # NoSchema
             THEN decode_avro_payload(SubSeq(last.raw_bytes, 19, Len(last.raw_bytes)), last.schema)
             ELSE DictVal([raw_bytes |-> StrLeaf(b64encode(SubSeq(last.raw_bytes, 19,
                                                                    Len(last.raw_bytes)))),
                           schema_version_id |-> StrLeaf(UuidStr(SubSeq(last.raw_bytes, 3, 18)))])

\* a payload under an unsupported code was decoded to a structured record
C14_Witness == OtherCompression /\ IsDict(last.ret) /\ "raw_bytes" \notin Keys(last.ret)

\* line 190 was reached: the schema of the topic was asked for by name
TopicPath == EnvelopeFree /\ Visited("by_name")

\* C17: on the topic-convention path the decoder's result is returned only when
\* it is a mapping without decode_error; an unresolved schema or a failed
\* decode yields exactly the terminal fallback; decode_error never appears.
C17_TopicPathHidesDecodeError ==
    TopicPath =>
        /\ ~last.raised =>
            /\ IsDict(last.ret) /\ "decode_error" \notin Keys(last.ret)
            /\ \/ last.ret = DictVal([raw_bytes |-> StrLeaf(b64encode(last.raw_bytes))])
               \/ /\ last.schema # NoSchema
                  /\ ~schemaless_reader(last.raw_bytes, last.schema).raised
                  /\ last.ret = schemaless_reader(last.raw_bytes, last.schema).value
        /\ (last.schema = NoSchema \/ schemaless_reader(last.raw_bytes, last.schema).raised) =>
            /\ ~last.raised
            /\ last.ret = DictVal([raw_bytes |-> StrLeaf(b64encode(last.raw_bytes))])

\* the schema resolved by name and the decode failed
C17_Witness ==
    /\ TopicPath /\ last.schema # NoSchema
    /\ schemaless_reader(last.raw_bytes, last.schema).raised
    /\ Keys(last.ret) = {"raw_bytes"}

\* C18: a cache entry is never removed and never changes; an entry is added
\* only by a resolution that succeeded on a key that was absent.
C18_CacheOnlyGrows ==
    [][ /\ \A k \in DOMAIN schema_cache :
              k \in DOMAIN schema_cache' /\ schema_cache'[k] = schema_cache[k]
        /\ \A k \in DOMAIN schema_cache' \ DOMAIN schema_cache :
              /\ last'.stored /\ last'.key = k /\ ~last'.hit /\ last'.calls = 1
              /\ last'.schema # NoSchema /\ schema_cache'[k] = last'.schema ]_vars

\* an entry was added while other entries stayed
C18_Witness ==
    /\ ResolverCalled /\ last.stored
    /\ \E k \in DOMAIN schema_cache : k # last.key

\* the result of the same decode in a process that has decoded nothing yet
FreshDecode(raw_bytes, topic, remote) == deserialize_message(raw_bytes, topic, <<>>, remote)

SameAsFresh(call, fresh) == call.raised = fresh.raised /\ call.ret = fresh.ret

\* C20 as stated: a decode returns what the same decode returns, under the same
\* registry behaviour, in a process that decoded no record before.
C20_IndependentOfPrefix ==
    [][ last'.op = "deserialize_message" =>
            SameAsFresh(last', FreshDecode(last'.raw_bytes, last'.topic, last'.remote)) ]_vars

\* C20 amended: so it is when the records before left no cache entry under the
\* key the record resolves, or when the registry answers the lookup.
C20_IndependentUnlessCached ==
    [][ (/\ last'.op = "deserialize_message"
         /\ \/ last'.resolver = "none"
            \/ last'.key \notin DOMAIN schema_cache
            \/ last'.remote = "respond") =>
            SameAsFresh(last', FreshDecode(last'.raw_bytes, last'.topic, last'.remote)) ]_vars

\* a record was decoded with a cached schema while the registry answered
C20_Witness ==
    /\ Decoded /\ last.hit /\ last.remote = "respond"
    /\ IsDict(last.ret) /\ "raw_bytes" \notin Keys(last.ret)

\* C15: every record handled so far has added exactly one envelope, whose data
\* is the value deserialize_message returned for the record, whatever its value
\* bytes, its key bytes and the outcome of the publish call.
C15_OneEnvelopePerRecord ==
    /\ Len(handler.all_event_payloads) = Len(handler.log)
    /\ \A i \in 1..Len(handler.log) :
          ~handler.log[i].raised /\ handler.all_event_payloads[i].data = handler.log[i].ret

\* the values deserialize_message returned for the records that decoded and
\* whose key decoded, in the order of the event
RECURSIVE DecodedData(_)
DecodedData(log) ==
    IF log = <<>> THEN <<>>
    ELSE IF Head(log).raised \/ Head(log).key_raised THEN DecodedData(Tail(log))
    ELSE <<Head(log).ret>> \o DecodedData(Tail(log))

\* C16: whatever the publish calls and the batch write do, every record of the
\* event is handled, the envelopes collected are those of the records that
\* decoded, with the data deserialize_message returned, and lambda_handler
\* returns with statusCode 200.
C16_DownstreamIsolated ==
    /\ Len(handler.log) + Len(handler.pending) = handler.total
    /\ [i \in 1..Len(handler.all_event_payloads) |-> handler.all_event_payloads[i].data]
            = DecodedData(handler.log)
    /\ handler.pc = "loop" /\ handler.pending = <<>> =>
            ENABLED (\E write \in WriteOutcomes : SaveAndReturn(write))
    /\ handler.pc = "done" => handler.result = 200 /\ handler.pending = <<>>

\* a publish call raised on the first record, the second record was collected,
\* and the batch save stored nothing
C16_Witness ==
    /\ handler.pc = "done" /\ Len(handler.log) = 2
    /\ handler.log[1].publish = "raise" /\ handler.log[2].collected
    /\ handler.log[2].publish = "false"
    /\ events_table /\ handler.saved_ids = <<>>

\* the worker has returned a schema
ReturnedSchema(x) == race.w[x].pc = "done" /\ race.w[x].ret # NoSchema

\* C19 as stated: whatever the interleaving, all values inserted under one key
\* are equal and the workers that resolve one key return the same schema, by
\* id and by name.
C19_RaceIsBenign ==
    /\ \A k \in DOMAIN race.inserted : Cardinality(race.inserted[k]) <= 1
    /\ \A x, y \in Workers :
          (ReturnedSchema(x) /\ ReturnedSchema(y) /\ race.w[x].key = race.w[y].key) =>
              race.w[x].ret = race.w[y].ret

\* C19 amended: so it is for by-id lookups, and for by-name lookups as long as
\* no new version of the schema was registered; the schema a worker returned
\* is then the one value inserted under its key and the value the cache holds.
C19_RaceIsBenignUnlessRegistered ==
    \A x \in Workers :
        (race.w[x].kind = "by_id" \/ ~race.registered) =>
            /\ Cardinality(race.inserted[race.w[x].key]) <= 1
            /\ ReturnedSchema(x) =>
                /\ race.inserted[race.w[x].key] = {race.w[x].ret}
                /\ race.w[x].key \in DOMAIN schema_cache
                /\ schema_cache[race.w[x].key] = race.w[x].ret

\* two workers missed the cache on one id, both called the registry and both
\* inserted
C19_Witness ==
    /\ race.w # <<>>
    /\ race.w[1].kind = "by_id" /\ race.w[1].key = race.w[2].key
    /\ ReturnedSchema(1) /\ ReturnedSchema(2)
    /\ race.w[1].fetched # NoSchema /\ race.w[2].fetched # NoSchema

\* C21: on the envelope path the extraction of the schema id cannot fail; the
\* envelope-error fallback is returned only under compression code 0x05 with
\* a payload that does not decompress, and under any other code the result is
\* the decoder's result or the schema_version_id fallback.
C21_ErrorOnlyFromDecompression ==
    (Decoded /\ EnvelopeBearing) =>
        /\ ~last.raised /\ Visited("uuid")
        /\ Visited("return_error") <=>
              /\ last.raw_bytes[2] = 5
              /\ SubSeq(last.raw_bytes, 19, Len(last.raw_bytes)) \notin DOMAIN ZlibStreams
        /\ Visited("return_error") <=> (IsDict(last.ret) /\ "error" \in Keys(last.ret))
        /\ last.raw_bytes[2] # 5 =>
              /\ last.resolver = "by_id"
              /\ last.ret =
                   IF last.schema # NoSchema
                   THEN decode_avro_payload(SubSeq(last.raw_bytes, 19, Len(last.raw_bytes)),
                                            last.schema)
                   ELSE DictVal([raw_bytes |-> StrLeaf(b64encode(SubSeq(last.raw_bytes, 19,
                                                                          Len(last.raw_bytes)))),
                                 schema_version_id |->
                                     StrLeaf(UuidStr(SubSeq(last.raw_bytes, 3, 18)))])

\* the envelope-error fallback was returned for a payload that does not
\* decompress
C21_Witness ==
    /\ Decoded /\ EnvelopeBearing /\ Visited("return_error")
    /\ last.raw_bytes[2] = 5 /\ Keys(last.ret) = {"raw_bytes", "error"}

\* C22: every record handled has incremented exactly one of the two counters,
\* so on return processed + errors is the number of records of the event, and
\* saved is at most the number of envelopes collected.
C22_HandlerAccounting ==
    /\ handler.processed_count + handler.error_count = Len(handler.log)
    /\ handler.processed_count =
          Cardinality({i \in 1..Len(handler.log) : handler.log[i].publish = "true"})
    /\ handler.pc = "done" =>
          /\ handler.processed_count + handler.error_count = handler.total
          /\ handler.saved_count <= Len(handler.all_event_payloads)

\* an invocation returned after one record was published and one failed
C22_Witness ==
    /\ handler.pc = "done" /\ handler.total = 2
    /\ handler.processed_count = 1 /\ handler.error_count = 1
    /\ handler.saved_count = 1 /\ Len(handler.all_event_payloads) = 1

\* the collected envelopes whose data is a mapping
MappingPayloads ==
    {i \in 1..Len(handler.all_event_payloads) : IsDict(handler.all_event_payloads[i].data)}

\* the table is configured and accepted the batch
TableAccepted ==
    /\ handler.pc = "done" /\ events_table /\ handler.write = "accept"
    /\ \A i, j \in MappingPayloads :
          i # j => Item(handler.all_event_payloads[i]) # Item(handler.all_event_payloads[j])

\* C23: when the table is configured and accepts every write, every collected
\* envelope whose data is a mapping is written and its id is in saved_ids,
\* whatever the data of the other envelopes of the batch.
C23_PersistedIndependently ==
    TableAccepted =>
        \A i \in MappingPayloads :
            /\ Item(handler.all_event_payloads[i]) \in handler.written
            /\ \E k \in 1..Len(handler.saved_ids) :
                  handler.saved_ids[k] = Item(handler.all_event_payloads[i]).id

\* the Kafka coordinates of an envelope
Coordinates(event_payload) ==
    <<event_payload.topic, event_payload.partition, event_payload.offset>>

PrimaryKey(event_payload) == <<Item(event_payload).pk, Item(event_payload).sk>>

\* C24: two collected envelopes with the same coordinates and the same data
\* have the same primary key, and two envelopes with different coordinates
\* never have the same primary key.
C24_KeyDeduplicatesOnlyDuplicates ==
    \A i, j \in MappingPayloads :
        /\ (/\ Coordinates(handler.all_event_payloads[i]) = Coordinates(handler.all_event_payloads[j])
            /\ handler.all_event_payloads[i].data = handler.all_event_payloads[j].data) =>
              PrimaryKey(handler.all_event_payloads[i]) = PrimaryKey(handler.all_event_payloads[j])
        /\ Coordinates(handler.all_event_payloads[i]) # Coordinates(handler.all_event_payloads[j]) =>
              PrimaryKey(handler.all_event_payloads[i]) # PrimaryKey(handler.all_event_payloads[j])

====
